---- MODULE Spec2Model ----
(***************************************************************************)
(* Model of m-mizutani/lrumap: a hash-chained table (table, bucket, node)  *)
(* combined with a circular array of expiration frames (frames, frame).    *)
(* Nodes live in a heap indexed by address; a pointer is an address or Nil.*)
(***************************************************************************)
EXTENDS Integers, Sequences, FiniteSets, TLC

(* ---------------- bounds of the model ---------------- *)
\* number of node objects Put may allocate in one run
MaxNodes == 3
\* New(maxTick) is called with maxTick in 0..MaxTickArg
MaxTickArg == 2
\* Prune(progress) is called with progress in 0..maxTick+MaxOver
MaxOver == 2
\* Prune is not called when it would move current past this tick
MaxCurrent == 3
\* hashValue arithmetic is done on the low HashBits bits of the uint64
HashBits == 3

(* ---------------- constants of the program ---------------- *)
\* fnvBasis = 14695981039346656037 and fnvPrime = 1099511628211, each
\* reduced modulo 2^22: xor and multiplication commute with taking the low
\* bits, so fnvHash below yields the low HashBits bits of the 64-bit hash
fnvBasis == 2237221
fnvPrime == 435

HashMod == 2 ^ HashBits

\* the nil pointer
Nil == 0

\* the nil interface value of node.data (bucket.root carries no data)
NoData == [key |-> <<>>, id |-> 0]

\* the byte slices used as keys: "a", "q" (same bucket as "a") and "ab"
Keys == {<<97>>, <<113>>, <<97, 98>>}

\* table, frames, current, maxTick, count: the fields of LruMap (frames is
\*   1-based here, frame p of the program is frames[p + 1]);
\* heap: the node objects by address, bucket roots included; the fields
\*   latest and ttl of node are never written or read and are left out;
\* ret: what the last call returned;
\* hist: for each node, the current tick and the ttl of the Put that made it;
\* returned: for each node, how many times a Prune result contained it.
\* current and current + ttl stay far below 2^64, so tick never wraps.
VARIABLES table, heap, frames, current, maxTick, count, ret, hist, returned

vars == <<table, heap, frames, current, maxTick, count, ret, hist, returned>>

(* ---------------- fnvHash ---------------- *)
RECURSIVE Xor(_, _)
Xor(a, b) ==
    IF a = 0 THEN b
    ELSE IF b = 0 THEN a
    ELSE (((a % 2) + (b % 2)) % 2) + (2 * Xor(a \div 2, b \div 2))

RECURSIVE fnvLoop(_, _, _)
fnvLoop(s, i, h) ==
    IF i > Len(s) THEN h
    ELSE fnvLoop(s, i + 1, (Xor(h, s[i]) * fnvPrime) % HashMod)

fnvHash(s) == fnvLoop(s, 1, fnvBasis % HashMod)

(* ---------------- addresses ---------------- *)
\* address of the root node embedded in the bucket of hash value hv
Root(hv) == 0 - (hv + 1)

\* addresses of the nodes allocated by Put so far
Allocated == {a \in DOMAIN heap : a > 0}

NewNodeRec(obj) == [next |-> Nil, prev |-> Nil, frameLink |-> Nil, data |-> obj]

(* ---------------- node ---------------- *)
attach(h, x, target) ==
    LET next == h[x].next
        h1 == [h EXCEPT ![x].next = target, ![target].prev = x]
    IN  IF next # Nil
        THEN [h1 EXCEPT ![next].prev = target, ![target].next = next]
        ELSE h1

\* a detach that does not repair the prev pointer of the next node
detachKeepingPrev(h, x) ==
    LET h2 == IF h[x].prev # Nil
              THEN [h EXCEPT ![h[x].prev].next = h[x].next]
              ELSE h
    IN  [h2 EXCEPT ![x].next = Nil, ![x].prev = Nil]

detach(h, x) ==
    LET h1 == IF h[x].next # Nil
              THEN [h EXCEPT ![h[x].next].prev = h[x].prev]
              ELSE h
        h2 == IF h[x].prev # Nil
              THEN [h1 EXCEPT ![h[x].prev].next = h[x].next]
              ELSE h1
    IN  [h2 EXCEPT ![x].next = Nil, ![x].prev = Nil]

matchKey(h, x, key) == h[x].data.key = key

equals(h, x, target) ==
    IF h[x].data = NoData \/ h[target].data = NoData
    THEN FALSE
    ELSE matchKey(h, x, h[target].data.key)

(* ---------------- bucket ---------------- *)
\* the loop of bucket.insert: the node the scan stops at, and whether it
\* stopped because of an equal key
RECURSIVE insertScan(_, _, _)
insertScan(h, p, newNode) ==
    IF h[p].next = Nil THEN [dup |-> FALSE, p |-> p]
    ELSE IF equals(h, p, newNode) THEN [dup |-> TRUE, p |-> p]
    ELSE insertScan(h, h[p].next, newNode)

insert(h, root, newNode) ==
    LET s == insertScan(h, root, newNode)
    IN  IF s.dup
        THEN [heap |-> h, err |-> "Duplicated key"]
        ELSE [heap |-> attach(h, s.p, newNode), err |-> "nil"]

RECURSIVE searchFrom(_, _, _)
searchFrom(h, p, key) ==
    IF p = Nil THEN Nil
    ELSE IF matchKey(h, p, key) THEN p
    ELSE searchFrom(h, h[p].next, key)

search(h, root, key) == searchFrom(h, h[root].next, key)

(* ---------------- frame ---------------- *)
\* a getFrame whose index is off by one
getFrameShifted(t) == (t + 1) % Len(frames)

getFrame(t) == t % Len(frames)

\* a frame.add that links the target behind the head of the slot
addBehindHead(h, fr, p, target) ==
    IF fr[p + 1] = Nil
    THEN [heap |-> h, frames |-> [fr EXCEPT ![p + 1] = target]]
    ELSE [heap |-> [h EXCEPT ![target].frameLink = h[fr[p + 1]].frameLink,
                             ![fr[p + 1]].frameLink = target],
          frames |-> fr]

\* frame.add on the frame at index p (0-based)
add(h, fr, p, target) ==
    [heap |-> [h EXCEPT ![target].frameLink = fr[p + 1]],
     frames |-> [fr EXCEPT ![p + 1] = target]]

\* the walk of frame.prune from link
RECURSIVE pruneWalk(_, _)
pruneWalk(h, link) ==
    IF link = Nil THEN [heap |-> h, pruned |-> <<>>]
    ELSE LET h1 == detach(h, link)
             rest == pruneWalk(h1, h1[link].frameLink)
         IN  [heap |-> rest.heap, pruned |-> <<h1[link].data>> \o rest.pruned]

\* a frame.prune that leaves the link of the frame in place
framePruneKeepingLink(h, fr, p) ==
    LET w == pruneWalk(h, fr[p + 1])
    IN  [heap |-> w.heap, frames |-> fr, pruned |-> w.pruned]

\* frame.prune on the frame at index p (0-based)
framePrune(h, fr, p) ==
    LET w == pruneWalk(h, fr[p + 1])
    IN  [heap |-> w.heap, frames |-> [fr EXCEPT ![p + 1] = Nil], pruned |-> w.pruned]

(* ---------------- LruMap ---------------- *)
\* the result of the last call, as the caller sees it; ierr is the value
\* bucket.insert returned inside Put; resPtr tells whether the pointer Prune
\* returned is nil or points to the slice res
NoRet == [op |-> "New", key |-> <<>>, id |-> 0, ttl |-> 0, progress |-> 0,
          err |-> "nil", ierr |-> "nil", data |-> NoData, res |-> <<>>,
          resPtr |-> "none", size |-> 0]

Init ==
    /\ maxTick \in 0..MaxTickArg
    /\ table = <<>>
    /\ heap = <<>>
    /\ frames = [i \in 1..(maxTick + 1) |-> Nil]
    /\ current = 0
    /\ count = 0
    /\ ret = NoRet
    /\ hist = <<>>
    /\ returned = <<>>

\* the range check with the comparison off by one
TtlOverOrEqual(ttl) == ttl >= maxTick

TtlOver(ttl) == ttl > maxTick

Put(key, ttl) ==
    IF TtlOver(ttl)
    THEN /\ ret' = [NoRet EXCEPT !.op = "Put", !.key = key, !.ttl = ttl,
                                 !.err = "TTL is over maxTick"]
         /\ UNCHANGED <<table, heap, frames, current, maxTick, count, hist, returned>>
    ELSE LET hv == fnvHash(key)
             n == Cardinality(Allocated) + 1
             obj == [key |-> key, id |-> n]
             h0 == IF hv \in DOMAIN table THEN heap
                   ELSE (Root(hv) :> NewNodeRec(NoData)) @@ heap
             h1 == (n :> NewNodeRec(obj)) @@ h0
             ins == insert(h1, Root(hv), n)
             a == add(ins.heap, frames, getFrame(current + ttl), n)
         IN  /\ n <= MaxNodes
             /\ table' = IF hv \in DOMAIN table THEN table
                         ELSE (hv :> Root(hv)) @@ table
             /\ heap' = a.heap
             /\ frames' = a.frames
             /\ count' = count + 1
             /\ hist' = (n :> [tick |-> current, ttl |-> ttl]) @@ hist
             /\ returned' = (n :> 0) @@ returned
             /\ ret' = [NoRet EXCEPT !.op = "Put", !.key = key, !.ttl = ttl,
                                     !.id = n, !.ierr = ins.err]
             /\ UNCHANGED <<current, maxTick>>

\* the body of Get on the table tbl and the heap h: the data it returns
GetData(tbl, h, key) ==
    LET hv == fnvHash(key)
    IN  IF hv \notin DOMAIN tbl THEN NoData
        ELSE LET searched == search(h, tbl[hv], key)
             IN  IF searched = Nil THEN NoData ELSE h[searched].data

\* a Get that creates the missing bucket the way Put does
GetCreatingBucket(key) ==
    LET hv == fnvHash(key)
    IN  /\ ret' = [NoRet EXCEPT !.op = "Get", !.key = key,
                                !.data = GetData(table, heap, key)]
        /\ table' = IF hv \in DOMAIN table THEN table ELSE (hv :> Root(hv)) @@ table
        /\ heap' = IF hv \in DOMAIN table THEN heap
                   ELSE (Root(hv) :> NewNodeRec(NoData)) @@ heap
        /\ UNCHANGED <<frames, current, maxTick, count, hist, returned>>

Get(key) ==
    /\ ret' = [NoRet EXCEPT !.op = "Get", !.key = key,
                            !.data = GetData(table, heap, key)]
    /\ UNCHANGED <<table, heap, frames, current, maxTick, count, hist, returned>>

\* a loop of Prune that runs once more than progress asks for
RECURSIVE pruneLoopInclusive(_, _, _, _, _, _)
pruneLoopInclusive(h, fr, cur, i, progress, res) ==
    IF i > progress THEN [heap |-> h, frames |-> fr, res |-> res]
    ELSE LET f == framePrune(h, fr, getFrame(cur + i))
         IN  pruneLoopInclusive(f.heap, f.frames, cur, i + 1, progress, res \o f.pruned)

\* a loop of Prune that indexes the frames by i alone
RECURSIVE pruneLoopFromZero(_, _, _, _, _, _)
pruneLoopFromZero(h, fr, cur, i, progress, res) ==
    IF i >= progress THEN [heap |-> h, frames |-> fr, res |-> res]
    ELSE LET f == framePrune(h, fr, getFrame(i))
         IN  pruneLoopFromZero(f.heap, f.frames, cur, i + 1, progress, res \o f.pruned)

\* the loop of Prune from iteration i on, when x.current is cur
RECURSIVE pruneLoopAt(_, _, _, _, _, _)
pruneLoopAt(h, fr, cur, i, progress, res) ==
    IF i >= progress THEN [heap |-> h, frames |-> fr, res |-> res]
    ELSE LET f == framePrune(h, fr, getFrame(cur + i))
         IN  pruneLoopAt(f.heap, f.frames, cur, i + 1, progress, res \o f.pruned)

\* the loop of Prune from iteration i on
pruneLoop(h, fr, i, progress, res) == pruneLoopAt(h, fr, current, i, progress, res)

Occurrences(s, id) == Cardinality({i \in 1..Len(s) : s[i].id = id})

\* a Prune that keeps current inside the wheel
PruneWrappingCurrent(progress) ==
    LET r == pruneLoop(heap, frames, 0, progress, <<>>)
    IN  /\ current + progress <= MaxCurrent
        /\ heap' = r.heap
        /\ frames' = r.frames
        /\ count' = count - Len(r.res)
        /\ current' = (current + progress) % Len(frames)
        /\ returned' = [n \in DOMAIN returned |-> returned[n] + Occurrences(r.res, n)]
        /\ ret' = [NoRet EXCEPT !.op = "Prune", !.progress = progress, !.res = r.res,
                                 !.resPtr = "slice"]
        /\ UNCHANGED <<table, maxTick, hist>>

\* a Prune that subtracts the progress from count instead of len(res)
PruneCountingProgress(progress) ==
    LET r == pruneLoop(heap, frames, 0, progress, <<>>)
    IN  /\ current + progress <= MaxCurrent
        /\ heap' = r.heap
        /\ frames' = r.frames
        /\ count' = count - progress
        /\ current' = current + progress
        /\ returned' = [n \in DOMAIN returned |-> returned[n] + Occurrences(r.res, n)]
        /\ ret' = [NoRet EXCEPT !.op = "Prune", !.progress = progress, !.res = r.res,
                                 !.resPtr = "slice"]
        /\ UNCHANGED <<table, maxTick, hist>>

Prune(progress) ==
    LET r == pruneLoop(heap, frames, 0, progress, <<>>)
    IN  /\ current + progress <= MaxCurrent
        /\ heap' = r.heap
        /\ frames' = r.frames
        /\ count' = count - Len(r.res)
        /\ current' = current + progress
        /\ returned' = [n \in DOMAIN returned |-> returned[n] + Occurrences(r.res, n)]
        /\ ret' = [NoRet EXCEPT !.op = "Prune", !.progress = progress, !.res = r.res,
                                 !.resPtr = "slice"]
        /\ UNCHANGED <<table, maxTick, hist>>

Size ==
    /\ ret' = [NoRet EXCEPT !.op = "Size", !.size = count]
    /\ UNCHANGED <<table, heap, frames, current, maxTick, count, hist, returned>>

Next ==
    \/ \E key \in Keys, ttl \in 0..(maxTick + 1) : Put(key, ttl)
    \/ \E key \in Keys : Get(key)
    \/ \E progress \in 0..(maxTick + MaxOver) : Prune(progress)
    \/ Size

Spec == Init /\ [][Next]_vars

(* ---------------- vocabulary of the properties ---------------- *)
\* node n has been put and has not been returned by a Prune
Live(n) == n \in DOMAIN returned /\ returned[n] = 0

LiveKey(key) == \E n \in DOMAIN returned : Live(n) /\ heap[n].data.key = key

\* the step is a Put that passed the range check
PutInRange == ret'.op = "Put" /\ ret'.ttl <= maxTick

\* ticks of progress since node n was put, before and after the step
Progress(n) == current - hist[n].tick
ProgressAfter(n) == current' - hist[n].tick

(* ---------------- C1 ---------------- *)
\* C1: a Put whose key equals the key of a live entry returns the
\* duplicate-key error, for every ttl in range and every chain length.
C1_DuplicateRejected ==
    [][(PutInRange /\ LiveKey(ret'.key)) => ret'.err = "Duplicated key"]_vars

(* ---------------- C2 ---------------- *)
\* C2: a Put whose key equals the key of a live entry leaves Size, the bucket
\* chains, the wheel slots and the current tick as they were.
C2_DuplicatePutChangesNothing ==
    [][(PutInRange /\ LiveKey(ret'.key))
          => UNCHANGED <<table, heap, frames, current, count>>]_vars

(* ---------------- C3 ---------------- *)
\* C3: in every reachable state at most one live entry has a given key, and
\* no two nodes linked in a bucket chain have equal keys.
C3_Uniqueness ==
    \A m, n \in DOMAIN returned :
        (m # n /\ heap[m].data.key = heap[n].data.key)
            => /\ ~(Live(m) /\ Live(n))
               /\ ~(heap[m].prev # Nil /\ heap[n].prev # Nil)

(* ---------------- C4 ---------------- *)
\* C4: Size() equals the number of keys for which Get returns a present value.
C4_SizeConsistency ==
    count = Cardinality({k \in Keys : GetData(table, heap, k) # NoData})

(* ---------------- C5 ---------------- *)
\* C5: while the progress since its Put is below its ttl, an entry is what
\* Get returns for its key and no Prune has returned it.
C5_NoEarlyExpiry ==
    \A n \in DOMAIN returned :
        Progress(n) < hist[n].ttl
            => /\ GetData(table, heap, heap[n].data.key) = heap[n].data
               /\ returned[n] = 0

(* ---------------- C6 ---------------- *)
\* C6: the Prune that brings the progress since an entry's Put to its ttl or
\* past it returns the entry, and Get no longer returns it.
C6_ExpiryAtTtl ==
    [][ret'.op = "Prune"
          => \A n \in DOMAIN returned :
                (Progress(n) < hist[n].ttl /\ ProgressAfter(n) >= hist[n].ttl)
                    => /\ Occurrences(ret'.res, n) = 1
                       /\ GetData(table', heap', heap[n].data.key) # heap[n].data]_vars

(* ---------------- C7 ---------------- *)
\* C7: Put returns the range error exactly when ttl > maxTick, and such a Put
\* leaves the hash index, the wheel, the current tick and Size unchanged.
C7_RangeRejection ==
    [][ret'.op = "Put"
          => /\ (ret'.err = "TTL is over maxTick") <=> (ret'.ttl > maxTick)
             /\ (ret'.ttl > maxTick)
                   => UNCHANGED <<table, heap, frames, current, maxTick, count>>]_vars

\* a Put was rejected for its ttl on a store that holds entries
C7_Witness ==
    ret.op = "Put" /\ ret.err = "TTL is over maxTick" /\ count >= 2

(* ---------------- C8 ---------------- *)
\* C8: Prune(maxTick+1) returns each entry that was live exactly once and
\* nothing else, leaves Size() = 0 and every Get absent; and over a run no
\* entry is returned by Prune twice.
C8_DrainCompleteness ==
    [][/\ \A n \in DOMAIN returned' : returned'[n] <= 1
       /\ (ret'.op = "Prune" /\ ret'.progress = maxTick + 1)
             => /\ \A n \in DOMAIN returned :
                      Occurrences(ret'.res, n) = IF Live(n) THEN 1 ELSE 0
                /\ Len(ret'.res) = Cardinality({n \in DOMAIN returned : Live(n)})
                /\ count' = 0
                /\ \A k \in Keys : GetData(table', heap', k) = NoData]_vars

\* a Prune(maxTick+1) returned entries of two frames, one of them a duplicate
C8_Witness ==
    /\ ret.op = "Prune" /\ ret.progress = maxTick + 1
    /\ Len(ret.res) = 3
    /\ \E i, j \in 1..3 : /\ i # j
                          /\ ret.res[i].key = ret.res[j].key
                          /\ hist[ret.res[i].id].ttl # hist[ret.res[j].id].ttl

(* ---------------- C9 ---------------- *)
\* C9: an entry put without error is what Get returns for its key until it
\* expires, and a Put does not change what Get returns for any other key.
C9_PutGetRoundTrip ==
    [][/\ \A n \in DOMAIN returned' :
             returned'[n] = 0
                => GetData(table', heap', heap'[n].data.key) = heap'[n].data
       /\ (ret'.op = "Put" /\ ret'.err = "nil")
             => \A k \in Keys \ {ret'.key} :
                   GetData(table', heap', k) = GetData(table, heap, k)]_vars

(* ---------------- C10 ---------------- *)
\* C10: a Get changes neither the set of buckets, nor a chain, nor a wheel
\* slot, nor the current tick, nor Size, and returns what the lookup finds.
C10_GetIsPure ==
    [][ret'.op = "Get"
          => /\ UNCHANGED <<table, heap, frames, current, maxTick, count>>
             /\ ret'.data = GetData(table, heap, ret'.key)]_vars

\* a Get of a key whose bucket does not exist, on a store that holds entries
C10_Witness ==
    /\ ret.op = "Get" /\ ret.data = NoData
    /\ fnvHash(ret.key) \notin DOMAIN table
    /\ count >= 1

RECURSIVE ChainFrom(_, _)
ChainFrom(h, p) == IF p = Nil THEN {} ELSE {p} \cup ChainFrom(h, h[p].next)

\* the nodes linked in the bucket chain of hash value hv
ChainOf(tbl, h, hv) == ChainFrom(h, h[tbl[hv]].next)

\* the nodes linked in a wheel slot from link on by frameLink pointers
RECURSIVE SlotFrom(_, _)
SlotFrom(h, link) == IF link = Nil THEN {} ELSE {link} \cup SlotFrom(h, h[link].frameLink)

\* the bucket chains and the wheel slots (0-based) that hold node n
ChainsHolding(n) == {hv \in DOMAIN table : n \in ChainOf(table, heap, hv)}
SlotsHolding(n) == {p \in 0..maxTick : n \in SlotFrom(heap, frames[p + 1])}

\* C12: every entry put and not yet drained is linked in exactly one bucket
\* chain and exactly one wheel slot, and every drained entry in neither.
C12_DualMembership ==
    \A n \in DOMAIN returned :
        /\ Live(n) => /\ Cardinality(ChainsHolding(n)) = 1
                      /\ Cardinality(SlotsHolding(n)) = 1
        /\ ~Live(n) => /\ ChainsHolding(n) = {}
                       /\ SlotsHolding(n) = {}

(* ---------------- C13 ---------------- *)
\* the absolute tick at which node n expires: the tick of its Put plus its ttl
ExpTick(n) == hist[n].tick + hist[n].ttl

\* C13: each entry put with ttl t at tick c sits in wheel slot
\* (c + t) mod (maxTick + 1), its expiration tick lies in
\* [current, current + maxTick], and no slot holds an entry whose expiration
\* tick is earlier than the current tick.
C13_WheelPlacement ==
    \A n \in DOMAIN returned :
        /\ Live(n) => /\ SlotsHolding(n) = {ExpTick(n) % (maxTick + 1)}
                      /\ current <= ExpTick(n)
                      /\ ExpTick(n) <= current + maxTick
        /\ SlotsHolding(n) # {} => ExpTick(n) >= current

\* after some progress, an entry with ttl = maxTick sits in a slot whose
\* index wrapped around, next to an entry that expires at the current tick
C13_Witness ==
    /\ current >= 1 /\ maxTick >= 1
    /\ \E m, n \in DOMAIN returned :
          /\ Live(m) /\ Live(n)
          /\ ExpTick(m) = current
          /\ ExpTick(n) = current + maxTick
          /\ ExpTick(n) % (maxTick + 1) < current % (maxTick + 1)

(* ---------------- C14 ---------------- *)
\* C14: the current tick never decreases: Prune(n) adds exactly n to it,
\* whatever it drains and also when n exceeds the wheel length, and Put
\* (accepted or rejected), Get and Size leave it unchanged.
C14_CurrentMonotone ==
    [][/\ current' >= current
       /\ (ret'.op = "Prune") => current' = current + ret'.progress
       /\ (ret'.op # "Prune") => current' = current]_vars

\* a Prune with progress beyond the wheel length, started after earlier
\* progress, that drained an entry
C14_Witness ==
    /\ ret.op = "Prune" /\ ret.progress > maxTick + 1 /\ ret.res # <<>>
    /\ current > ret.progress

(* ---------------- C15 ---------------- *)
\* the sum of f[n] over the nodes n of set S
RECURSIVE SumOver(_, _)
SumOver(f, S) ==
    IF S = {} THEN 0
    ELSE LET n == CHOOSE x \in S : TRUE
         IN  f[n] + SumOver(f, S \ {n})

\* C15: a Put that returns no error adds exactly 1 to Size, a Put that
\* returns an error leaves Size unchanged, Prune subtracts the length of its
\* result; Size = accepted Puts - entries returned by Prunes, and Size >= 0.
C15_CountBookkeeping ==
    [][/\ (ret'.op = "Put" /\ ret'.err = "nil") => count' = count + 1
       /\ (ret'.op = "Put" /\ ret'.err # "nil") => count' = count
       /\ (ret'.op = "Prune") => count' = count - Len(ret'.res)
       /\ count' = Cardinality(DOMAIN returned') - SumOver(returned', DOMAIN returned')
       /\ count' >= 0]_vars

\* a Prune returned two of three counted entries, one of them a duplicate
\* that bucket.insert had refused
C15_Witness ==
    /\ ret.op = "Prune" /\ Len(ret.res) = 2 /\ count = 1
    /\ \E i \in 1..2 : ChainsHolding(ret.res[i].id) = {} /\ heap[ret.res[i].id].frameLink # Nil

(* ---------------- C16 ---------------- *)
\* the nodes of the chain of the bucket of key, when the bucket exists
ChainOfKey(tbl, h, key) ==
    IF fnvHash(key) \in DOMAIN tbl THEN ChainOf(tbl, h, fnvHash(key)) ELSE {}

\* C16: bucket.insert returns the duplicate error and leaves the chain as it
\* was if any node of the chain, the last one included, has an equal key;
\* otherwise it links the new node into the chain and returns nil.
C16_InsertChecksWholeChain ==
    [][PutInRange
          => LET before == ChainOfKey(table, heap, ret'.key)
                 after == ChainOfKey(table', heap', ret'.key)
             IN  IF \E m \in before : heap[m].data.key = ret'.key
                 THEN ret'.ierr = "Duplicated key" /\ after = before
                 ELSE ret'.ierr = "nil" /\ after = before \cup {ret'.id}]_vars

(* ---------------- C17 ---------------- *)
\* C17: after a Prune no drained entry is linked in any bucket chain, and
\* every entry of a chain that was not drained is still linked in that chain
\* and is still what Get returns if it was before, wherever the drained
\* entries were in the chain and however many of them were drained.
C17_RemovalKeepsChains ==
    [][ret'.op = "Prune"
          => /\ \A hv \in DOMAIN table :
                   ChainOf(table', heap', hv)
                      = {n \in ChainOf(table, heap, hv) : Occurrences(ret'.res, n) = 0}
             /\ \A n \in DOMAIN returned :
                   (/\ Occurrences(ret'.res, n) = 0
                    /\ GetData(table, heap, heap[n].data.key) = heap[n].data)
                      => GetData(table', heap', heap[n].data.key) = heap[n].data]_vars

\* one Prune drained the head and the tail of a chain of three, and the
\* node in the middle is still linked
C17_Witness ==
    /\ ret.op = "Prune" /\ Len(ret.res) = 2
    /\ \E n \in DOMAIN returned :
          /\ Live(n) /\ ChainsHolding(n) # {}
          /\ {ret.res[1].id, ret.res[2].id} = {n - 1, n + 1}
          /\ fnvHash(heap[n - 1].data.key) = fnvHash(heap[n].data.key)
          /\ heap[n - 1].data.key # heap[n].data.key
          /\ heap[n + 1].data.key = heap[n].data.key
          /\ hist[n + 1].tick = hist[n - 1].tick

(* ---------------- C18 ---------------- *)
\* C18: in the result of one Prune the entries are in non-decreasing order
\* of expiration tick, and entries of one expiration tick are in reverse
\* order of insertion (node addresses grow with the order of the Puts).
C18_DrainOrder ==
    [][ret'.op = "Prune"
          => \A i, j \in 1..Len(ret'.res) :
                i < j => /\ ExpTick(ret'.res[i].id) <= ExpTick(ret'.res[j].id)
                         /\ (ExpTick(ret'.res[i].id) = ExpTick(ret'.res[j].id))
                               => ret'.res[i].id > ret'.res[j].id]_vars

\* a Prune returned two entries of one slot and then an entry of a later
\* tick whose slot index is smaller
C18_Witness ==
    /\ ret.op = "Prune" /\ Len(ret.res) = 3
    /\ ExpTick(ret.res[1].id) = ExpTick(ret.res[2].id)
    /\ ExpTick(ret.res[2].id) < ExpTick(ret.res[3].id)
    /\ ExpTick(ret.res[3].id) % (maxTick + 1) < ExpTick(ret.res[1].id) % (maxTick + 1)

(* ---------------- C19 ---------------- *)
\* the fields a Prune(progress) leaves and the result it returns, when it
\* starts from heap h, frames fr, current tick cur and count cnt
PruneOutcome(h, fr, cur, cnt, progress) ==
    LET r == pruneLoopAt(h, fr, cur, 0, progress, <<>>)
    IN  [heap |-> r.heap, frames |-> r.frames, current |-> cur + progress,
         count |-> cnt - Len(r.res), res |-> r.res]

\* C19: from every reachable state and for all a, b up to the wheel length
\* (so a + b reaches twice the wheel length), Prune(a) followed by Prune(b)
\* leaves the same current tick, Size, chains and slots as Prune(a + b), and
\* the two results concatenated are its result.
C19_PruneAdditive ==
    \A a, b \in 0..(maxTick + 1) :
        LET first == PruneOutcome(heap, frames, current, count, a)
            second == PruneOutcome(first.heap, first.frames, first.current,
                                   first.count, b)
            single == PruneOutcome(heap, frames, current, count, a + b)
        IN  /\ second.heap = single.heap
            /\ second.frames = single.frames
            /\ second.current = single.current
            /\ second.count = single.count
            /\ first.res \o second.res = single.res

\* a state from which Prune(1) and the Prune(maxTick + 1) after it both
\* return entries, the second one from a slot whose index wrapped around
C19_Witness ==
    /\ current % (maxTick + 1) = maxTick /\ maxTick >= 1
    /\ PruneOutcome(heap, frames, current, count, 1).res # <<>>
    /\ frames[1] # Nil
    /\ count = 3

====
